---- MODULE Spec2Model ----
(***************************************************************************)
(* Model of fiddle-core's Installer (src/src/electron.ts, class Installer) *)
(* and of Runner.bisect (src/src/runner.ts).                               *)
(*                                                                         *)
(* The Installer is modelled as a state machine whose steps are the        *)
(* synchronous segments between two awaits of its async methods; every     *)
(* I/O operation (fetch, rename, rm, extract) completes in a step of its   *)
(* own and may succeed or fail.                                            *)
(***************************************************************************)
EXTENDS Integers, Sequences, FiniteSets, TLC

\* The version strings the callers use.
Versions == {"a", "b"}

None == "none"

\* Number of API calls (install, ensureDownloaded, remove) a behaviour starts.
MaxCalls == 3

\* rerunner: `if (counter < 4)` retries, so a deletion is attempted 4 times.
MaxAttempts == 4

InstallState == {"missing", "downloading", "downloaded", "installing", "installed"}

VARIABLES
    stateMap,     \* Installer.stateMap: a JS Map, kept in insertion order
    zips,         \* versions whose archive is in paths.electronDownloads
    preDirs,      \* versions with a pre-extracted directory in electronDownloads
    marker,       \* content of electronInstall/version, None when absent
    downloading,  \* Installer.downloading: version -> in-flight ensureDownloadedImpl
    installing,   \* Installer.installing
    inst,         \* per version: position of the install() call in flight
    rem,          \* per version: position of the remove() call in flight
    fetches,      \* per version: number of download() calls in flight
    calls,        \* number of API calls started so far
    emitted,      \* 'state-changed' events emitted by the last step
    setLog,       \* the setState calls made by the last step, in order
    ret           \* the call settled by the last step, if any

VARIABLES
    versionCount, \* bisect: versions.length, the size of the range
    oracle,       \* bisect: the verdict a run of each position returns
    bpc,          \* bisect: position in Runner.bisect
    left,         \* bisect: left
    right,        \* bisect: right
    result,       \* bisect: the outer `result`, the last midpoint verdict
    results,      \* bisect: results[], "undefined" where nothing was run
    boundaries,   \* bisect: the boundary positions still to be run
    testOrder,    \* bisect: testOrder[], the midpoints in the order run
    runs,         \* bisect: how many times each position was run
    bisectResult  \* bisect: the BisectResult returned

VARIABLES
    val,          \* versions: the versions handed to setVersions
    versionMap,   \* versions: the values of BaseVersions.map, in insertion order
    endA,         \* versions: the first endpoint given to inRange
    endB,         \* versions: the second endpoint given to inRange
    rangeAB,      \* versions: the array inRange(endA, endB) returned
    rangeBA,      \* versions: the array inRange(endB, endA) returned
    semA,         \* versions: the first argument of compareVersions
    semB,         \* versions: the second argument of compareVersions
    cmp,          \* versions: the number compareVersions(semA, semB) returned
    vpc           \* versions: what has been computed so far

bvars == <<versionCount, oracle, bpc, left, right, result, results,
           boundaries, testOrder, runs, bisectResult>>

VARIABLES
    rmExists,     \* deletions: per path of remove(), whether the path exists
    rmFail,       \* deletions: per path, how many rmSync calls in a row throw
    rmInstalled,  \* deletions: whether the version removed is the installed one
    rmAttempts,   \* deletions: per path, the calls of func(path) made
    rmResult,     \* deletions: per path, what `await rerunner(...)` returned
    rmpc          \* deletions: the path remove() deletes next

rvars == <<rmExists, rmFail, rmInstalled, rmAttempts, rmResult, rmpc>>

vvars == <<val, versionMap, endA, endB, rangeAB, rangeBA, semA, semB, cmp, vpc>>

ivars == <<stateMap, zips, preDirs, marker, downloading, installing, inst,
           rem, fetches, calls, emitted, setLog, ret>>

----------------------------------------------------------------------------
(* Installer.state / setState / installedVersion                           *)

HasKey(map, version) == \E i \in DOMAIN map : map[i].version = version

\* state(version): this.stateMap.get(version) || InstallState.missing
state(map, version) ==
    IF HasKey(map, version)
    THEN map[CHOOSE i \in DOMAIN map : map[i].version = version].state
    ELSE "missing"

\* Map.delete / Map.set: set on an existing key keeps its position
MapDelete(map, version) == SelectSeq(map, LAMBDA e : e.version # version)

MapSet(map, version, s) ==
    IF HasKey(map, version)
    THEN [i \in DOMAIN map |->
            IF map[i].version = version THEN [version |-> version, state |-> s]
            ELSE map[i]]
    ELSE Append(map, [version |-> version, state |-> s])

\* A store is the stateMap together with the events emitted and the
\* setState calls made in the current step.
Store(map) == [map |-> map, events |-> <<>>, log |-> <<>>]

\* setState without the `oldState !== newState` test
setStateAlwaysEmits(st, version, s) ==
    LET map2 == IF s = "missing" THEN MapDelete(st.map, version)
                ELSE MapSet(st.map, version, s)
    IN  [map    |-> map2,
         events |-> Append(st.events, [version |-> version, state |-> state(map2, version)]),
         log    |-> Append(st.log, [version |-> version, state |-> s])]

setState(st, version, s) ==
    LET oldState == state(st.map, version)
        map2     == IF s = "missing" THEN MapDelete(st.map, version)
                    ELSE MapSet(st.map, version, s)
        newState == state(map2, version)
    IN  [map    |-> map2,
         events |-> IF oldState # newState
                    THEN Append(st.events, [version |-> version, state |-> newState])
                    ELSE st.events,
         log    |-> Append(st.log, [version |-> version, state |-> s])]

\* get installedVersion(): the first entry, in Map order, that is installed
installedVersion(map) ==
    IF \E i \in DOMAIN map : map[i].state = "installed"
    THEN LET first == CHOOSE i \in DOMAIN map :
                         /\ map[i].state = "installed"
                         /\ \A j \in DOMAIN map : map[j].state = "installed" => i <= j
         IN  map[first].version
    ELSE None

\* the store of a step becomes the next state
Commit(st) ==
    /\ stateMap' = st.map
    /\ emitted' = st.events
    /\ setLog' = st.log

NoRet == [op |-> None, version |-> None, outcome |-> None, extracted |-> FALSE, n |-> 0]

Ret(op, version, outcome, extracted, n) ==
    [op |-> op, version |-> version, outcome |-> outcome, extracted |-> extracted, n |-> n]

----------------------------------------------------------------------------
(* rebuildStates, run by the constructor                                   *)

RECURSIVE SetAll(_, _, _)
SetAll(st, versions, s) ==
    IF versions = <<>> THEN st
    ELSE SetAll(setState(st, Head(versions), s), Tail(versions), s)

\* entries: the order in which readdirSync lists electronDownloads
rebuildStates(mark, entries) ==
    LET st0 == Store(<<>>)
        st1 == IF mark # None THEN setState(st0, mark, "installed") ELSE st0
    IN  SetAll(st1, entries, "downloaded")

RECURSIVE Orderings(_)
Orderings(S) ==
    IF S = {} THEN {<<>>}
    ELSE UNION {{<<x>> \o rest : rest \in Orderings(S \ {x})} : x \in S}

IdleDownload == [pc |-> "none", ext |-> 0]
IdleInstall  == [pc |-> "idle", ok |-> FALSE, extracted |-> FALSE,
                 originalState |-> "missing", installedVersion |-> None]
\* remove()'s position and locals; zipGone, pathGone and binaryGone record
\* that some attempt of the deletion went through
IdleRemove   == [pc |-> "idle", isZipDeleted |-> FALSE, isPathDeleted |-> FALSE,
                 isBinaryDeleted |-> FALSE, zipGone |-> FALSE, pathGone |-> FALSE,
                 binaryGone |-> FALSE]

\* The Installer is constructed over any content of the two directories. The
\* code only compares version strings for equality, so the versions are
\* interchangeable and the one the marker file names, if any, is called "a".
IInit ==
    /\ zips \in SUBSET Versions
    /\ preDirs \in SUBSET Versions
    /\ marker \in {"a", None}
    /\ \E entries \in Orderings(zips \cup preDirs) :
          stateMap = rebuildStates(marker, entries).map
    /\ downloading = [v \in Versions |-> IdleDownload]
    /\ installing = {}
    /\ inst = [v \in Versions |-> IdleInstall]
    /\ rem = [v \in Versions |-> IdleRemove]
    /\ fetches = [v \in Versions |-> 0]
    /\ calls = 0
    /\ emitted = <<>>
    /\ setLog = <<>>
    /\ ret = NoRet

----------------------------------------------------------------------------
(* ensureDownloaded                                                        *)

\* JavaScript runs a task and the continuations it makes ready (promise
\* reactions: the install() resuming after a settled ensureDownloaded, the
\* segments of remove() between its awaits, the install continuing after the
\* synchronous cpSync) before it delivers another I/O completion.
ContinuationPending ==
    \E v \in Versions : \/ rem[v].pc # "idle"
                        \/ inst[v].pc \in {"dlReady", "copied"}

\* ensureDownloaded without `promises.set(version, promise)`
InFlightNever(dl, version) == FALSE

\* promises.get(version) is truthy: a download of `version` is in flight
InFlight(dl, version) == dl[version].pc # "none"

\* an ensureDownloadedImpl that fetches whenever no pre-extracted directory
\* is returned
ensureDownloadedImplRefetches(map, version) ==
    IF state(map, version) = "downloaded" /\ version \notin zips /\ version \in preDirs
    THEN [path |-> "preInstalled", st |-> Store(map)]
    ELSE [path |-> "fetch", st |-> setState(Store(map), version, "downloading")]

\* an ensureDownloadedImpl without the test for a pre-extracted directory
ensureDownloadedImplNoPreInstalled(map, version) ==
    IF state(map, version) = "missing" \/ version \notin zips
    THEN [path |-> "fetch", st |-> setState(Store(map), version, "downloading")]
    ELSE [path |-> "zip", st |-> Store(map)]

\* ensureDownloadedImpl up to its first await, or to its return when no
\* fetch is needed
ensureDownloadedImplSync(map, version) ==
    LET zipFileExists == version \in zips
        s == state(map, version)
    IN  IF s = "downloaded" /\ ~zipFileExists /\ version \in preDirs
        THEN [path |-> "preInstalled", st |-> Store(map)]
        ELSE IF s = "missing" \/ ~zipFileExists
        THEN [path |-> "fetch", st |-> setState(Store(map), version, "downloading")]
        ELSE [path |-> "zip", st |-> Store(map)]

\* a settling without the `.finally(() => promises.delete(version))`
SettleKeepsEntry(version, ok) ==
    /\ downloading' = [downloading EXCEPT ![version] = [pc |-> "settled", ext |-> 0]]
    /\ ret' = IF downloading[version].ext > 0
              THEN Ret("ensureDownloaded", version, IF ok THEN "ok" ELSE "error",
                       FALSE, downloading[version].ext)
              ELSE NoRet
    /\ inst' = IF inst[version].pc = "awaitDl"
               THEN [inst EXCEPT ![version].pc = "dlReady", ![version].ok = ok,
                                 ![version].extracted = FALSE]
               ELSE inst

\* The in-flight operation of `version` settles: `.finally` deletes the map
\* entry, every caller holding the promise settles with its result, and an
\* install() awaiting it becomes ready to resume.
Settle(version, ok) ==
    /\ downloading' = [downloading EXCEPT ![version] = IdleDownload]
    /\ ret' = IF downloading[version].ext > 0
              THEN Ret("ensureDownloaded", version, IF ok THEN "ok" ELSE "error",
                       FALSE, downloading[version].ext)
              ELSE NoRet
    /\ inst' = IF inst[version].pc = "awaitDl"
               THEN [inst EXCEPT ![version].pc = "dlReady", ![version].ok = ok,
                                 ![version].extracted = FALSE]
               ELSE inst

\* a caller invokes ensureDownloaded(version)
EnsureDownloadedCall(version) ==
    /\ calls < MaxCalls
    /\ calls' = calls + 1
    /\ IF InFlight(downloading, version)
       THEN /\ downloading' = [downloading EXCEPT ![version].ext = @ + 1]
            /\ Commit(Store(stateMap))
            /\ ret' = NoRet
            /\ fetches' = fetches
       ELSE LET r == ensureDownloadedImplSync(stateMap, version)
            IN  /\ Commit(r.st)
                /\ IF r.path = "fetch"
                   THEN /\ downloading' = [downloading EXCEPT
                                              ![version] = [pc |-> "fetch", ext |-> 1]]
                        /\ fetches' = [fetches EXCEPT ![version] = @ + 1]
                        /\ ret' = NoRet
                   ELSE /\ downloading' = downloading
                        /\ fetches' = fetches
                        /\ ret' = Ret("ensureDownloaded", version, "ok",
                                      r.path = "preInstalled", 1)
    /\ UNCHANGED <<zips, preDirs, marker, installing, inst, rem>>
    /\ UNCHANGED <<bvars, vvars, rvars>>

\* ensureDownloadedImpl whose catch block only rethrows
downloadFailedKeepsState(map, version) == Store(map)

\* state after the catch block of ensureDownloadedImpl
downloadFailed(map, version) == setState(Store(map), version, "missing")

\* `await this.download(version, opts)` (and the mkdir) resolves or rejects
DownloadFetched(version) ==
    /\ downloading[version].pc = "fetch"
    /\ ~ContinuationPending
    /\ fetches' = [fetches EXCEPT ![version] = @ - 1]
    /\ \/ /\ downloading' = [downloading EXCEPT ![version].pc = "move"]
          /\ Commit(Store(stateMap))
          /\ ret' = NoRet
          /\ inst' = inst
       \/ /\ Commit(downloadFailed(stateMap, version))
          /\ Settle(version, FALSE)
    /\ UNCHANGED <<zips, preDirs, marker, installing, rem, calls>>
    /\ UNCHANGED <<bvars, vvars, rvars>>

\* fs.rename of the fetched file, with the EXDEV fallback copyFile + rm
DownloadMoved(version) ==
    /\ downloading[version].pc = "move"
    /\ ~ContinuationPending
    /\ \E outcome \in {"renamed", "copied", "copiedRmFailed", "failed"} :
          /\ zips' = IF outcome = "failed" THEN zips ELSE zips \cup {version}
          /\ IF outcome \in {"renamed", "copied"}
             THEN /\ downloading' = [downloading EXCEPT ![version].pc = "moved"]
                  /\ Commit(Store(stateMap))
                  /\ ret' = NoRet
                  /\ inst' = inst
             ELSE /\ Commit(downloadFailed(stateMap, version))
                  /\ Settle(version, FALSE)
    /\ UNCHANGED <<preDirs, marker, installing, rem, fetches, calls>>
    /\ UNCHANGED <<bvars, vvars, rvars>>

\* an ensureDownloadedImpl that returns without setState(Downloaded)
downloadSucceededKeepsState(map, version) == Store(map)

\* state after a successful move
downloadSucceeded(map, version) == setState(Store(map), version, "downloaded")

\* the continuation after the move: setState(downloaded) and return
DownloadFinish(version) ==
    /\ downloading[version].pc = "moved"
    /\ ~ContinuationPending
    /\ Commit(downloadSucceeded(stateMap, version))
    /\ Settle(version, TRUE)
    /\ UNCHANGED <<zips, preDirs, marker, installing, rem, fetches, calls>>
    /\ UNCHANGED <<bvars, vvars, rvars>>

----------------------------------------------------------------------------
(* install                                                                 *)

\* install() with the `throw` moved inside the try/finally
installingAfterBusyDeletes(set, version) == set \ {version}

\* install(): `if (isVersionInstalling) throw` precedes the try/finally, so
\* the rejected call leaves this.installing alone
installingAfterBusy(set, version) == set

\* a busy test that any install in flight makes true
isAnyInstalling(set, version) == set # {}

\* const isVersionInstalling = this.installing.has(version)
isVersionInstalling(set, version) == version \in set

\* a caller invokes install(version)
InstallCall(version) ==
    /\ calls < MaxCalls
    /\ calls' = calls + 1
    /\ IF isVersionInstalling(installing, version)
       THEN \* throw new Error(`Currently installing "${version}"`)
            /\ ret' = Ret("install", version, "busy", FALSE, 1)
            /\ installing' = installingAfterBusy(installing, version)
            /\ Commit(Store(stateMap))
            /\ UNCHANGED <<downloading, inst, fetches>>
       ELSE IF installedVersion(stateMap) = version
       THEN \* already installed: add, then delete in the finally block
            /\ ret' = Ret("install", version, "ok", FALSE, 1)
            /\ installing' = (installing \cup {version}) \ {version}
            /\ Commit(Store(stateMap))
            /\ UNCHANGED <<downloading, inst, fetches>>
       ELSE /\ installing' = installing \cup {version}
            /\ ret' = NoRet
            /\ IF InFlight(downloading, version)
               THEN /\ inst' = [inst EXCEPT ![version].pc = "awaitDl"]
                    /\ Commit(Store(stateMap))
                    /\ UNCHANGED <<downloading, fetches>>
               ELSE LET r == ensureDownloadedImplSync(stateMap, version)
                    IN  /\ Commit(r.st)
                        /\ IF r.path = "fetch"
                           THEN /\ downloading' = [downloading EXCEPT
                                      ![version] = [pc |-> "fetch", ext |-> 0]]
                                /\ fetches' = [fetches EXCEPT ![version] = @ + 1]
                                /\ inst' = [inst EXCEPT ![version].pc = "awaitDl"]
                           ELSE /\ inst' = [inst EXCEPT
                                      ![version].pc = "dlReady",
                                      ![version].ok = TRUE,
                                      ![version].extracted = (r.path = "preInstalled")]
                                /\ UNCHANGED <<downloading, fetches>>
    /\ UNCHANGED <<zips, preDirs, marker, rem>>
    /\ UNCHANGED <<bvars, vvars, rvars>>

\* an install() that rejects without its finally block
InstallRejectsKeepsInstalling(version) ==
    /\ installing' = installing
    /\ inst' = [inst EXCEPT ![version] = IdleInstall]
    /\ ret' = Ret("install", version, "error", FALSE, 1)

\* install() rejects: the finally block deletes the version from installing
InstallRejects(version) ==
    /\ installing' = installing \ {version}
    /\ inst' = [inst EXCEPT ![version] = IdleInstall]
    /\ ret' = Ret("install", version, "error", FALSE, 1)

\* the state installVersionImpl's catch block restores
restoredState(originalState) == originalState

\* installVersionImpl's catch block: setState(version, originalState); throw
Rollback(version) ==
    /\ Commit(setState(Store(stateMap), version,
                       restoredState(inst[version].originalState)))
    /\ InstallRejects(version)

\* `await this.ensureDownloaded(version, opts)` returns control to install():
\* it rethrows, or enters installVersionImpl up to `await fs.rm`
InstallResume(version) ==
    /\ inst[version].pc = "dlReady"
    /\ IF ~inst[version].ok
       THEN /\ InstallRejects(version)
            /\ Commit(Store(stateMap))
       ELSE /\ inst' = [inst EXCEPT
                  ![version].pc = "rm",
                  ![version].installedVersion = installedVersion(stateMap),
                  ![version].originalState = state(stateMap, version)]
            /\ Commit(setState(Store(stateMap), version, "installing"))
            /\ ret' = NoRet
            /\ installing' = installing
    /\ UNCHANGED <<zips, preDirs, marker, downloading, rem, fetches, calls>>
    /\ UNCHANGED <<bvars, vvars, rvars>>

\* fs.rm(electronInstall) settles; for a pre-extracted source the callback's
\* fs.cpSync runs in the same continuation
InstallCleared(version) ==
    /\ inst[version].pc = "rm"
    /\ ~ContinuationPending
    /\ \/ \* rm fails, having removed the marker file or not
          /\ marker' \in {marker, None}
          /\ Rollback(version)
       \/ \* rm succeeds, extraction of the archive starts
          /\ ~inst[version].extracted
          /\ marker' = None
          /\ inst' = [inst EXCEPT ![version].pc = "extract"]
          /\ Commit(Store(stateMap))
          /\ ret' = NoRet
          /\ installing' = installing
       \/ \* rm succeeds, cpSync copies the pre-extracted directory
          /\ inst[version].extracted
          /\ version \in preDirs
          /\ marker' = version
          /\ inst' = [inst EXCEPT ![version].pc = "copied"]
          /\ Commit(Store(stateMap))
          /\ ret' = NoRet
          /\ installing' = installing
       \/ \* rm succeeds, cpSync throws
          /\ inst[version].extracted
          /\ marker' \in {None} \cup ({version} \cap preDirs)
          /\ Rollback(version)
    /\ UNCHANGED <<zips, preDirs, downloading, rem, fetches, calls>>
    /\ UNCHANGED <<bvars, vvars, rvars>>

\* extract(source, { dir: electronInstall }) settles
InstallExtracted(version) ==
    /\ inst[version].pc = "extract"
    /\ ~ContinuationPending
    /\ \/ /\ version \in zips
          /\ marker' = version
          /\ inst' = [inst EXCEPT ![version].pc = "finish"]
          /\ Commit(Store(stateMap))
          /\ ret' = NoRet
          /\ installing' = installing
       \/ /\ marker' \in {marker} \cup ({version} \cap zips)
          /\ Rollback(version)
    /\ UNCHANGED <<zips, preDirs, downloading, rem, fetches, calls>>
    /\ UNCHANGED <<bvars, vvars, rvars>>

\* an installVersionImpl that promotes `version` before it demotes `previous`
installVersionDonePromotesFirst(map, version, previous) ==
    LET st == setState(Store(map), version, "installed")
    IN  IF previous # None THEN setState(st, previous, "downloaded") ELSE st

\* the end of installVersionImpl: demote the version that was installed when
\* installVersionImpl was entered, promote `version`
installVersionDone(map, version, previous) ==
    LET st == IF previous # None
              THEN setState(Store(map), previous, "downloaded")
              ELSE Store(map)
    IN  setState(st, version, "installed")

InstallFinish(version) ==
    /\ \/ inst[version].pc = "copied"
       \/ inst[version].pc = "finish" /\ ~ContinuationPending
    /\ Commit(installVersionDone(stateMap, version, inst[version].installedVersion))
    /\ installing' = installing \ {version}
    /\ inst' = [inst EXCEPT ![version] = IdleInstall]
    /\ ret' = Ret("install", version, "ok", FALSE, 1)
    /\ UNCHANGED <<zips, preDirs, marker, downloading, rem, fetches, calls>>
    /\ UNCHANGED <<bvars, vvars, rvars>>

----------------------------------------------------------------------------
(* remove                                                                  *)

\* a rerunner that rethrows the error of its last attempt
RECURSIVE rerunnerRethrows(_, _, _)
rerunnerRethrows(exists, nFail, counter) ==
    IF ~(exists /\ counter <= nFail)
    THEN [result |-> TRUE, deleted |-> exists, attempts |-> 1, threw |-> FALSE]
    ELSE IF counter < MaxAttempts
    THEN LET again == rerunnerRethrows(exists, nFail, counter + 1)
         IN  [result |-> FALSE, deleted |-> again.deleted,
              attempts |-> 1 + again.attempts, threw |-> again.threw]
    ELSE [result |-> FALSE, deleted |-> FALSE, attempts |-> 1, threw |-> TRUE]

\* a rerunner that tries once more than the bound
RECURSIVE rerunnerOneMore(_, _, _)
rerunnerOneMore(exists, nFail, counter) ==
    IF ~(exists /\ counter <= nFail)
    THEN [result |-> TRUE, deleted |-> exists, attempts |-> 1, threw |-> FALSE]
    ELSE IF counter < MaxAttempts + 1
    THEN LET again == rerunnerOneMore(exists, nFail, counter + 1)
         IN  [result |-> FALSE, deleted |-> again.deleted,
              attempts |-> 1 + again.attempts, threw |-> again.threw]
    ELSE [result |-> FALSE, deleted |-> FALSE, attempts |-> 1, threw |-> FALSE]

\* rerunner(path, func, counter): `exists` says whether the path is there
\* (binaryCleaner only calls rmSync on an existing path), nFail how many
\* rmSync calls in a row throw. The catch block swallows every error, so the
\* promise never rejects (threw); the value of a retry is dropped, so the
\* result is true only when the first attempt succeeds.
RECURSIVE rerunner(_, _, _)
rerunner(exists, nFail, counter) ==
    IF ~(exists /\ counter <= nFail)
    THEN [result |-> TRUE, deleted |-> exists, attempts |-> 1, threw |-> FALSE]
    ELSE IF counter < MaxAttempts
    THEN LET again == rerunner(exists, nFail, counter + 1)
         IN  [result |-> FALSE, deleted |-> again.deleted,
              attempts |-> 1 + again.attempts, threw |-> again.threw]
    ELSE [result |-> FALSE, deleted |-> FALSE, attempts |-> 1, threw |-> FALSE]

Failures(exists) == IF exists THEN 0..MaxAttempts ELSE {0}

\* an `await rerunner(...)` of remove() rejects: so does remove()
RemoveRejects(version) ==
    /\ rem' = [rem EXCEPT ![version] = IdleRemove]
    /\ ret' = Ret("remove", version, "error", FALSE, 1)

\* a caller invokes remove(version): the archive is deleted
RemoveCall(version) ==
    /\ calls < MaxCalls
    /\ calls' = calls + 1
    /\ rem[version].pc = "idle"
    /\ \E nFail \in Failures(version \in zips) :
          LET r == rerunner(version \in zips, nFail, 1)
          IN  /\ zips' = IF r.deleted THEN zips \ {version} ELSE zips
              /\ IF r.threw
                 THEN RemoveRejects(version)
                 ELSE /\ rem' = [rem EXCEPT
                            ![version].pc = "path",
                            ![version].isZipDeleted = r.result,
                            ![version].zipGone = (version \notin zips \/ r.deleted)]
                      /\ ret' = NoRet
    /\ Commit(Store(stateMap))
    /\ UNCHANGED <<preDirs, marker, downloading, installing, inst, fetches>>
    /\ UNCHANGED <<bvars, vvars, rvars>>

\* the pre-extracted directory is deleted
RemovePath(version) ==
    /\ rem[version].pc = "path"
    /\ \E nFail \in Failures(version \in preDirs) :
          LET r == rerunner(version \in preDirs, nFail, 1)
          IN  /\ preDirs' = IF r.deleted THEN preDirs \ {version} ELSE preDirs
              /\ IF r.threw
                 THEN RemoveRejects(version)
                 ELSE /\ rem' = [rem EXCEPT
                            ![version].pc = "binary",
                            ![version].isPathDeleted = r.result,
                            ![version].pathGone = (version \notin preDirs \/ r.deleted)]
                      /\ ret' = NoRet
    /\ Commit(Store(stateMap))
    /\ UNCHANGED <<zips, marker, downloading, installing, inst, fetches, calls>>
    /\ UNCHANGED <<bvars, vvars, rvars>>

\* the end of remove() with a setState that emits without comparing
removeFinalAlwaysEmits(map, version, isZipDeleted, isPathDeleted, isBinaryDeleted) ==
    IF (isZipDeleted \/ isPathDeleted) /\ isBinaryDeleted
    THEN setStateAlwaysEmits(Store(map), version, "missing")
    ELSE Store(map)

\* `if ((isZipDeleted || isPathDeleted) && isBinaryDeleted) setState(missing)`
removeFinal(map, version, isZipDeleted, isPathDeleted, isBinaryDeleted) ==
    IF (isZipDeleted \/ isPathDeleted) /\ isBinaryDeleted
    THEN setState(Store(map), version, "missing")
    ELSE Store(map)

\* `if (this.installedVersion === version)`: electronInstall is deleted and
\* the result awaited; otherwise remove() runs on to its end in this step
RemoveBinary(version) ==
    /\ rem[version].pc = "binary"
    /\ IF installedVersion(stateMap) = version
       THEN /\ \E nFail \in Failures(marker # None) :
                  LET r == rerunner(marker # None, nFail, 1)
                  IN  /\ marker' = IF r.deleted THEN None ELSE marker
                      /\ IF r.threw
                         THEN RemoveRejects(version)
                         ELSE /\ rem' = [rem EXCEPT
                                    ![version].pc = "final",
                                    ![version].isBinaryDeleted = r.result,
                                    ![version].binaryGone = (marker = None \/ r.deleted)]
                              /\ ret' = NoRet
            /\ Commit(Store(stateMap))
       ELSE /\ marker' = marker
            /\ Commit(removeFinal(stateMap, version, rem[version].isZipDeleted,
                                  rem[version].isPathDeleted, TRUE))
            /\ rem' = [rem EXCEPT ![version] = IdleRemove]
            /\ ret' = Ret("remove", version, "ok", FALSE, 1)
    /\ UNCHANGED <<zips, preDirs, downloading, installing, inst, fetches, calls>>
    /\ UNCHANGED <<bvars, vvars, rvars>>

\* the deletion of electronInstall settled: remove() runs on to its end
RemoveFinal(version) ==
    /\ rem[version].pc = "final"
    /\ Commit(removeFinal(stateMap, version, rem[version].isZipDeleted,
                          rem[version].isPathDeleted, rem[version].isBinaryDeleted))
    /\ rem' = [rem EXCEPT ![version] = IdleRemove]
    /\ ret' = Ret("remove", version, "ok", FALSE, 1)
    /\ UNCHANGED <<zips, preDirs, marker, downloading, installing, inst, fetches, calls>>
    /\ UNCHANGED <<bvars, vvars, rvars>>

----------------------------------------------------------------------------

INext ==
    \E version \in Versions :
        \/ EnsureDownloadedCall(version)
        \/ DownloadFetched(version)
        \/ DownloadMoved(version)
        \/ DownloadFinish(version)
        \/ InstallCall(version)
        \/ InstallResume(version)
        \/ InstallCleared(version)
        \/ InstallExtracted(version)
        \/ InstallFinish(version)
        \/ RemoveCall(version)
        \/ RemovePath(version)
        \/ RemoveBinary(version)
        \/ RemoveFinal(version)

----------------------------------------------------------------------------
(* Runner.bisect                                                           *)

\* The largest versions.length explored.
MaxVersions == 5

Verdict == {"test_passed", "test_failed", "test_error", "system_error"}

Undefined == "undefined"

NoResult == [status |-> None, range |-> <<>>]

\* the positions of the versions array
Positions(n) == 0 .. (n - 1)

\* a loop that stops one step early
loopConditionEarly(l, r) == l + 2 < r

\* while (left + 1 < right)
loopCondition(l, r) == l + 1 < r

\* a midpoint next to the left pointer: a linear search
MidNextToLeft(l, r) == l + 1

\* Math.round(left + (right - left) / 2): halves round up
Mid(l, r) == (l + r + 1) \div 2

\* a validation of the lower boundary only
BoundariesLeftOnly(l, r, res, n) ==
    IF l = 0 /\ (0 \notin DOMAIN res \/ res[0] = Undefined) THEN <<0>> ELSE <<>>

\* the boundary positions to validate after the loop
Boundaries(l, r, res, n) ==
    (IF l = 0 /\ (0 \notin DOMAIN res \/ res[0] = Undefined) THEN <<0>> ELSE <<>>)
    \o (IF r = n - 1 /\ ((n - 1) \notin DOMAIN res \/ res[n - 1] = Undefined)
        THEN <<n - 1>> ELSE <<>>)

\* a classification without the `results[left].status === results[right].status` test
ClassifyNoEqualTest(l, r, res, last) ==
    IF res[l] = "test_passed" /\ res[r] = "test_failed"
    THEN [status |-> "bisect_succeeded", range |-> <<l, r>>]
    ELSE IF last \in {"test_error", "system_error"}
    THEN [status |-> last, range |-> <<>>]
    ELSE [status |-> "system_error", range |-> <<>>]

\* a classification that looks at the abort verdict first
ClassifyAbortFirst(l, r, res, last) ==
    IF last \in {"test_error", "system_error"}
    THEN [status |-> last, range |-> <<>>]
    ELSE IF res[l] = "test_passed" /\ res[r] = "test_failed"
    THEN [status |-> "bisect_succeeded", range |-> <<l, r>>]
    ELSE IF res[l] = res[r]
    THEN [status |-> "test_error", range |-> <<>>]
    ELSE [status |-> "system_error", range |-> <<>>]

\* the final classification of bisect
Classify(l, r, res, last) ==
    IF res[l] = "test_passed" /\ res[r] = "test_failed"
    THEN [status |-> "bisect_succeeded", range |-> <<l, r>>]
    ELSE IF last \in {"test_error", "system_error"}
    THEN [status |-> last, range |-> <<>>]
    ELSE IF res[l] = res[r]
    THEN [status |-> "test_error", range |-> <<>>]
    ELSE [status |-> "system_error", range |-> <<>>]

BIdle ==
    /\ versionCount = 0
    /\ oracle = <<>>
    /\ bpc = "idle"
    /\ left = 0
    /\ right = 0
    /\ result = Undefined
    /\ results = <<>>
    /\ boundaries = <<>>
    /\ testOrder = <<>>
    /\ runs = <<>>
    /\ bisectResult = NoResult

\* bisect is entered with the range inRange returned and a verdict per
\* version that this.run will report
BInit ==
    /\ versionCount \in 0 .. MaxVersions
    /\ oracle \in [Positions(versionCount) -> Verdict]
    /\ bpc = "loop"
    /\ left = 0
    /\ right = versionCount - 1
    /\ result = Undefined
    /\ results = [i \in Positions(versionCount) |-> Undefined]
    /\ boundaries = <<>>
    /\ testOrder = <<>>
    /\ runs = [i \in Positions(versionCount) |-> 0]
    /\ bisectResult = NoResult

\* a bisect that records the failed install of a midpoint as a SystemError
\* verdict
BisectRunRecordsFailure ==
    /\ bpc = "loop" /\ loopCondition(left, right)
    /\ testOrder' = Append(testOrder, Mid(left, right))
    /\ result' = "system_error"
    /\ results' = [results EXCEPT ![Mid(left, right)] = "system_error"]
    /\ bpc' = "rejected"
    /\ UNCHANGED <<versionCount, oracle, left, right, boundaries, runs,
                   bisectResult>>
    /\ UNCHANGED <<ivars, vvars, rvars>>

\* this.run rejects (getExec rethrows the failure of installer.install):
\* the await in bisect throws and bisect rejects; in the loop the midpoint
\* was pushed to testOrder before the await
BisectRunRejects ==
    /\ \/ /\ bpc = "loop" /\ loopCondition(left, right)
          /\ testOrder' = Append(testOrder, Mid(left, right))
       \/ /\ bpc = "confirm" /\ boundaries # <<>>
          /\ Head(boundaries) \in Positions(versionCount)
          /\ testOrder' = testOrder
    /\ bpc' = "rejected"
    /\ UNCHANGED <<versionCount, oracle, left, right, result, results,
                   boundaries, runs, bisectResult>>
    /\ UNCHANGED <<ivars, vvars, rvars>>

\* a loop that moves left to every midpoint that did not fail
nextLeftUnlessFailed(verdict, mid, l) == IF verdict # "test_failed" THEN mid ELSE l

\* if (result.status === 'test_passed') left = mid
nextLeft(verdict, mid, l) == IF verdict = "test_passed" THEN mid ELSE l

\* else if (result.status === 'test_failed') right = mid
nextRight(verdict, mid, r) == IF verdict = "test_failed" THEN mid ELSE r

\* one iteration of the while loop
BisectMid ==
    /\ bpc = "loop"
    /\ loopCondition(left, right)
    /\ LET mid == Mid(left, right)
           verdict == oracle[mid]
       IN  /\ testOrder' = Append(testOrder, mid)
           /\ result' = verdict
           /\ results' = [results EXCEPT ![mid] = verdict]
           /\ runs' = [runs EXCEPT ![mid] = @ + 1]
           /\ left' = nextLeft(verdict, mid, left)
           /\ right' = nextRight(verdict, mid, right)
           /\ bpc' = IF verdict \in {"test_passed", "test_failed"}
                     THEN "loop" ELSE "break"
    /\ UNCHANGED <<versionCount, oracle, boundaries, bisectResult>>
    /\ UNCHANGED <<ivars, vvars, rvars>>

\* the loop is left: the boundaries to validate are collected
BisectLoopExit ==
    /\ \/ bpc = "loop" /\ ~loopCondition(left, right)
       \/ bpc = "break"
    /\ boundaries' = Boundaries(left, right, results, versionCount)
    /\ bpc' = "confirm"
    /\ UNCHANGED <<versionCount, oracle, left, right, result, results,
                   testOrder, runs, bisectResult>>
    /\ UNCHANGED <<ivars, vvars, rvars>>

\* for (const position of boundaries): one boundary is run;
\* versions[position].version throws when the position is not in the array
BisectBoundary ==
    /\ bpc = "confirm"
    /\ boundaries # <<>>
    /\ LET position == Head(boundaries)
       IN  IF position \in Positions(versionCount)
           THEN /\ results' = [results EXCEPT ![position] = oracle[position]]
                /\ runs' = [runs EXCEPT ![position] = @ + 1]
                /\ boundaries' = Tail(boundaries)
                /\ bpc' = "confirm"
           ELSE /\ bpc' = "threw"
                /\ UNCHANGED <<results, runs, boundaries>>
    /\ UNCHANGED <<versionCount, oracle, left, right, result, testOrder,
                   bisectResult>>
    /\ UNCHANGED <<ivars, vvars, rvars>>

\* the classification and the return
BisectReturn ==
    /\ bpc = "confirm"
    /\ boundaries = <<>>
    /\ IF left \in Positions(versionCount) /\ right \in Positions(versionCount)
          /\ results[left] # Undefined /\ results[right] # Undefined
       THEN /\ bisectResult' = Classify(left, right, results, result)
            /\ bpc' = "done"
       ELSE \* results[left].status of undefined
            /\ bisectResult' = bisectResult
            /\ bpc' = "threw"
    /\ UNCHANGED <<versionCount, oracle, left, right, result, results,
                   boundaries, testOrder, runs>>
    /\ UNCHANGED <<ivars, vvars, rvars>>

BNext ==
    \/ BisectMid
    \/ BisectLoopExit
    \/ BisectBoundary
    \/ BisectReturn
    \/ BisectRunRejects

\* the Installer with no bisect running
IIdle ==
    /\ stateMap = <<>>
    /\ zips = {}
    /\ preDirs = {}
    /\ marker = None
    /\ downloading = [v \in Versions |-> IdleDownload]
    /\ installing = {}
    /\ inst = [v \in Versions |-> IdleInstall]
    /\ rem = [v \in Versions |-> IdleRemove]
    /\ fetches = [v \in Versions |-> 0]
    /\ calls = 0
    /\ emitted = <<>>
    /\ setLog = <<>>
    /\ ret = NoRet

----------------------------------------------------------------------------
(* versions.ts: compareVersions, BaseVersions.setVersions and inRange       *)

\* the numeric parts and the numeric prerelease identifiers range over
\* 0..MaxPart
MaxPart == 1

\* setVersions receives at most MaxKnown versions
MaxKnown == 3

\* the prerelease tags, and their order as JavaScript strings
Tags == {"alpha", "beta", "nightly"}
TagRank == [t \in Tags |-> CASE t = "alpha" -> 1 [] t = "beta" -> 2
                             [] t = "nightly" -> 3]

\* a prerelease identifier is a tag or a number
Tag(t) == [numeric |-> FALSE, tag |-> t, n |-> 0]
Num(n) == [numeric |-> TRUE, tag |-> "", n |-> n]

\* SemVer.prerelease: empty for a stable release, else `tag` or `tag.n`
Prereleases ==
    {<<>>} \cup {<<Tag(t)>> : t \in Tags}
           \cup {<<Tag(t), Num(n)>> : t \in Tags, n \in 0..MaxPart}

\* the parsed versions (semver's SemVer objects)
SemVers == [major : 0..MaxPart, minor : 0..MaxPart, patch : 0..MaxPart,
            prerelease : Prereleases]

\* semver's compareIdentifiers on numbers
compareNumbers(a, b) == IF a = b THEN 0 ELSE IF a < b THEN -1 ELSE 1

\* semver's compareIdentifiers: numbers compare as numbers, a number sorts
\* before a string, strings compare as strings
compareIdentifiers(a, b) ==
    IF a.numeric /\ b.numeric THEN compareNumbers(a.n, b.n)
    ELSE IF a = b THEN 0
    ELSE IF a.numeric /\ ~b.numeric THEN -1
    ELSE IF b.numeric /\ ~a.numeric THEN 1
    ELSE IF TagRank[a.tag] < TagRank[b.tag] THEN -1 ELSE 1

\* SemVer.compareMain: major, then minor, then patch
compareMain(a, b) ==
    IF compareNumbers(a.major, b.major) # 0 THEN compareNumbers(a.major, b.major)
    ELSE IF compareNumbers(a.minor, b.minor) # 0 THEN compareNumbers(a.minor, b.minor)
    ELSE compareNumbers(a.patch, b.patch)

\* the do/while loop of SemVer.comparePre from identifier i on
RECURSIVE comparePreFrom(_, _, _)
comparePreFrom(p, q, i) ==
    IF i > Len(p) /\ i > Len(q) THEN 0
    ELSE IF i > Len(q) THEN 1
    ELSE IF i > Len(p) THEN -1
    ELSE IF p[i] = q[i] THEN comparePreFrom(p, q, i + 1)
    ELSE compareIdentifiers(p[i], q[i])

\* SemVer.comparePre: a version without prerelease is the greater one
comparePre(a, b) ==
    IF a.prerelease # <<>> /\ b.prerelease = <<>> THEN -1
    ELSE IF a.prerelease = <<>> /\ b.prerelease # <<>> THEN 1
    ELSE IF a.prerelease = <<>> /\ b.prerelease = <<>> THEN 0
    ELSE comparePreFrom(a.prerelease, b.prerelease, 1)

\* const [prea] = a.prerelease; prea === 'nightly'
firstIsNightly(a) == a.prerelease # <<>> /\ a.prerelease[1] = Tag("nightly")

\* a compareVersions without the two nightly tests: semver's own order
compareVersionsSemver(a, b) ==
    IF compareMain(a, b) # 0 THEN compareMain(a, b) ELSE comparePre(a, b)

compareVersions(a, b) ==
    IF compareMain(a, b) # 0 THEN compareMain(a, b)
    ELSE IF firstIsNightly(a) /\ ~firstIsNightly(b) THEN -1
    ELSE IF ~firstIsNightly(a) /\ firstIsNightly(b) THEN 1
    ELSE comparePre(a, b)

\* semvers.sort((a, b) => compareVersions(a, b)) on distinct versions
RECURSIVE sort(_)
sort(S) ==
    IF S = {} THEN <<>>
    ELSE LET least == CHOOSE x \in S :
                         \A y \in S \ {x} : compareVersions(x, y) < 0
         IN  <<least>> \o sort(S \ {least})

\* setVersions: the parsed versions are sorted and inserted into the
\* cleared map in that order
setVersions(given) == sort(given)

\* Array.prototype.findIndex with `ver.version === a`, counting from 0
findIndex(versions, a) ==
    IF \E i \in DOMAIN versions : versions[i] = a
    THEN (CHOOSE i \in DOMAIN versions :
              /\ versions[i] = a
              /\ \A j \in DOMAIN versions : versions[j] = a => i <= j) - 1
    ELSE -1

Max(a, b) == IF a > b THEN a ELSE b
Min(a, b) == IF a < b THEN a ELSE b

\* Array.prototype.slice(start, end): a negative index counts from the end
slice(versions, start, end) ==
    LET len == Len(versions)
        k == IF start < 0 THEN Max(len + start, 0) ELSE Min(start, len)
        final == IF end < 0 THEN Max(len + end, 0) ELSE Min(end, len)
    IN  SubSeq(versions, k + 1, final)

\* an inRange without the swap of its two indexes
inRangeNoSwap(versions, a, b) ==
    slice(versions, findIndex(versions, a), findIndex(versions, b) + 1)

inRange(versions, a, b) ==
    LET first == findIndex(versions, a)
        last == findIndex(versions, b)
    IN  IF first > last THEN slice(versions, last, first + 1)
        ELSE slice(versions, first, last + 1)

\* the versions used for the ranges: x.0.0 and its tagged prereleases
RangePool ==
    {s \in SemVers :
        /\ s.minor = 0 /\ s.patch = 0
        /\ Len(s.prerelease) # 1
        /\ Len(s.prerelease) = 2 => s.prerelease[2] = Num(0)}

NoVersion == [major |-> 0, minor |-> 0, patch |-> 0, prerelease |-> <<>>]

VIdle ==
    /\ val = {} /\ versionMap = <<>>
    /\ endA = NoVersion /\ endB = NoVersion
    /\ rangeAB = <<>> /\ rangeBA = <<>>
    /\ semA = NoVersion /\ semB = NoVersion
    /\ cmp = 0
    /\ vpc = "idle"

\* the inputs: a set of versions and two endpoints, or two versions to compare
VInit ==
    /\ versionMap = <<>> /\ rangeAB = <<>> /\ rangeBA = <<>> /\ cmp = 0
    /\ \/ /\ vpc = "versions"
          /\ val \in {S \in SUBSET RangePool : Cardinality(S) <= MaxKnown}
          /\ endA \in RangePool /\ endB \in RangePool
          /\ semA = NoVersion /\ semB = NoVersion
       \/ /\ vpc = "compare"
          /\ val = {} /\ endA = NoVersion /\ endB = NoVersion
          /\ semA \in SemVers /\ semB \in SemVers

\* new BaseVersions(val)
SetVersions ==
    /\ vpc = "versions"
    /\ versionMap' = setVersions(val)
    /\ vpc' = "ready"
    /\ UNCHANGED <<val, endA, endB, rangeAB, rangeBA, semA, semB, cmp>>
    /\ UNCHANGED <<ivars, bvars, rvars>>

\* the calls inRange(endA, endB) and inRange(endB, endA) that bisect makes
\* for the two orders of its endpoints
InRange ==
    /\ vpc = "ready"
    /\ rangeAB' = inRange(versionMap, endA, endB)
    /\ rangeBA' = inRange(versionMap, endB, endA)
    /\ vpc' = "ranged"
    /\ UNCHANGED <<val, versionMap, endA, endB, semA, semB, cmp>>
    /\ UNCHANGED <<ivars, bvars, rvars>>

\* the call compareVersions(semA, semB)
CompareVersions ==
    /\ vpc = "compare"
    /\ cmp' = compareVersions(semA, semB)
    /\ vpc' = "compared"
    /\ UNCHANGED <<val, versionMap, endA, endB, rangeAB, rangeBA, semA, semB>>
    /\ UNCHANGED <<ivars, bvars, rvars>>

VNext == SetVersions \/ InRange \/ CompareVersions

----------------------------------------------------------------------------
(* the deletions of remove(): rerunner on each of its three paths           *)

\* zipPath, preInstalledPath and paths.electronInstall
RemovePaths == <<"zip", "preInstalled", "electronInstall">>

Paths == {RemovePaths[i] : i \in DOMAIN RemovePaths}

RIdle ==
    /\ rmExists = [p \in Paths |-> FALSE]
    /\ rmFail = [p \in Paths |-> 0]
    /\ rmInstalled = FALSE
    /\ rmAttempts = [p \in Paths |-> 0]
    /\ rmResult = [p \in Paths |-> FALSE]
    /\ rmpc = 0

\* remove(version) is called over any content of the three paths and any
\* run of failing rmSync calls
RInit ==
    /\ rmExists \in [Paths -> BOOLEAN]
    /\ rmFail \in {f \in [Paths -> 0..MaxAttempts] :
                      \A p \in Paths : f[p] \in Failures(rmExists[p])}
    /\ rmInstalled \in BOOLEAN
    /\ rmAttempts = [p \in Paths |-> 0]
    /\ rmResult = [p \in Paths |-> FALSE]
    /\ rmpc = 1

\* `await rerunner(path, binaryCleaner)` for the next path of remove();
\* electronInstall is deleted only `if (this.installedVersion === version)`
RemoveDeletion ==
    /\ rmpc \in DOMAIN RemovePaths
    /\ LET p == RemovePaths[rmpc]
       IN  IF p = "electronInstall" /\ ~rmInstalled
           THEN /\ rmResult' = [rmResult EXCEPT ![p] = TRUE]
                /\ UNCHANGED <<rmExists, rmAttempts>>
           ELSE LET r == rerunner(rmExists[p], rmFail[p], 1)
                IN  /\ rmAttempts' = [rmAttempts EXCEPT ![p] = r.attempts]
                    /\ rmResult' = [rmResult EXCEPT ![p] = r.result]
                    /\ rmExists' = [rmExists EXCEPT ![p] = @ /\ ~r.deleted]
    /\ rmpc' = rmpc + 1
    /\ UNCHANGED <<rmFail, rmInstalled>>
    /\ UNCHANGED <<ivars, bvars, vvars>>

RNext == RemoveDeletion

----------------------------------------------------------------------------

vars == <<ivars, bvars, vvars, rvars>>

Init == IInit /\ BIdle /\ VIdle /\ RIdle

Next == INext

\* the Installer under concurrent callers
Spec == Init /\ [][Next]_vars

BisectInit == IIdle /\ BInit /\ VIdle /\ RIdle

\* one call of Runner.bisect
BisectSpec == BisectInit /\ [][BNext]_vars

VersionsInit == IIdle /\ BIdle /\ VInit /\ RIdle

\* compareVersions, setVersions and inRange on every input of the bounds
VersionsSpec == VersionsInit /\ [][VNext]_vars

\* one call of Runner.bisect in which every run, and so every step of the
\* call, comes to its end
BisectLiveSpec == BisectInit /\ [][BNext]_vars /\ WF_vars(BNext)

RerunnerInit == IIdle /\ BIdle /\ VIdle /\ RInit

\* the deletions of one remove() call on every input
RerunnerSpec == RerunnerInit /\ [][RNext]_vars

TypeOK ==
    /\ \A i \in DOMAIN stateMap : stateMap[i].state \in InstallState \ {"missing"}
    /\ installing \subseteq Versions

----------------------------------------------------------------------------
(* Properties of the Installer                                             *)

Installed(map) == {i \in DOMAIN map : map[i].state = "installed"}

\* C1: in every reachable state at most one version has state Installed.
C1_AtMostOneInstalled == Cardinality(Installed(stateMap)) <= 1

\* C2: whenever install(v) resolves, state(v) = Installed, installedVersion
\* is v and the marker file of the active-install directory names v.
C2_InstallResolved ==
    (ret.op = "install" /\ ret.outcome = "ok") =>
        /\ state(stateMap, ret.version) = "installed"
        /\ installedVersion(stateMap) = ret.version
        /\ marker = ret.version

\* C3: a version has at most one fetch running; no step starts a fetch for a
\* version whose download is in flight; and when the in-flight operation
\* ends, all the callers that hold it settle together with its one result.
C3_OneFetch ==
    [][\A v \in Versions :
          /\ fetches'[v] <= 1
          /\ downloading[v].pc # "none" => fetches'[v] <= fetches[v]
          /\ (downloading[v].pc # "none" /\ downloading'[v].pc = "none"
                 /\ downloading[v].ext > 0)
             => /\ ret'.op = "ensureDownloaded"
                /\ ret'.version = v
                /\ ret'.n = downloading[v].ext
                /\ ret'.outcome = IF state(stateMap', v) = "downloaded"
                                  THEN "ok" ELSE "error"]_vars

C3_Witness == ret.op = "ensureDownloaded" /\ ret.n >= 2

\* C4: an install(v) made while an install of v is in flight rejects at once
\* with 'Currently installing', changes nothing (state map, disk, in-flight
\* sets, position of the pending call) and emits no event; a pending call
\* that resolves leaves v Installed.
C4_BusyRejects ==
    [][/\ ret'.outcome = "busy" =>
            /\ ret'.op = "install"
            /\ ret'.version \in installing
            /\ emitted' = <<>>
            /\ UNCHANGED <<stateMap, zips, preDirs, marker, downloading,
                           installing, inst, rem, fetches>>
       /\ \A v \in Versions :
            (v \in installing /\ inst[v].pc # "idle" /\ inst'[v].pc = "idle"
                /\ ret'.outcome = "ok")
            => state(stateMap', v) = "installed"]_vars

C4_Witness == ret.op = "install" /\ ret.outcome = "busy"

\* C5: state(v) = Downloading only while a download of v is in flight and
\* state(v) = Installing only while an install of v is in flight.
C5_TransientStates ==
    \A v \in Versions :
        /\ state(stateMap, v) = "downloading" => downloading[v].pc # "none"
        /\ state(stateMap, v) = "installing" => v \in installing

\* C6: every setState call of a step whose new state differs from the
\* state the version had just before the call emits exactly one event
\* carrying the new state, and a call that sets the state the version already
\* has emits none; the events of a step are exactly those, in call order.
\* ExpectedEvents and StatesAfter replay the calls of a step on the states
\* the versions had before the step.
States(map) == [v \in Versions |-> state(map, v)]

RECURSIVE StatesAfter(_, _)
StatesAfter(cur, log) ==
    IF log = <<>> THEN cur
    ELSE StatesAfter([cur EXCEPT ![Head(log).version] = Head(log).state], Tail(log))

RECURSIVE ExpectedEvents(_, _)
ExpectedEvents(cur, log) ==
    IF log = <<>> THEN <<>>
    ELSE (IF cur[Head(log).version] # Head(log).state THEN <<Head(log)>> ELSE <<>>)
         \o ExpectedEvents([cur EXCEPT ![Head(log).version] = Head(log).state],
                           Tail(log))

C6_EventIffChanged ==
    [][/\ emitted' = ExpectedEvents(States(stateMap), setLog')
       /\ States(stateMap') = StatesAfter(States(stateMap), setLog')]_vars

C6_Witness ==
    /\ Len(setLog) = 2
    /\ Len(emitted) = 1

\* C7: when clearing the active-install directory or extracting into it
\* fails, install(v) rejects and state(v) is the state v had before it was
\* set to Installing, which is neither Installing nor Installed.
C7_RollbackState ==
    [][\A v \in Versions :
          (inst[v].pc \in {"rm", "extract"} /\ inst'[v].pc = "idle")
          => /\ ret' = Ret("install", v, "error", FALSE, 1)
             /\ state(stateMap', v) = inst[v].originalState
             /\ state(stateMap', v) \notin {"installing", "installed"}]_vars

\* C8: when the fetch or the move fails, the callers of ensureDownloaded(v)
\* are rejected and state(v) = Missing.
C8_DownloadFailure ==
    [][\A v \in Versions :
          (downloading[v].pc \in {"fetch", "move"} /\ downloading'[v].pc = "none")
          => /\ state(stateMap', v) = "missing"
             /\ downloading[v].ext > 0 =>
                   ret' = Ret("ensureDownloaded", v, "error", FALSE, downloading[v].ext)
             /\ inst[v].pc = "awaitDl" => ~inst'[v].ok]_vars

C8_Witness ==
    /\ ret.op = "ensureDownloaded" /\ ret.outcome = "error"
    /\ state(stateMap, ret.version) = "missing"

\* the stores a new Installer builds over the directories as they are now
Rebuilt ==
    {rebuildStates(marker, entries).map : entries \in Orderings(zips \cup preDirs)}

\* C15: a store rebuilt from disk reports as Installed the version that the
\* marker file of the active-install directory names (so, after a
\* successful install(v), version v).
C15_RebuiltInstalled ==
    marker # None =>
        \A map \in Rebuilt :
            /\ state(map, marker) = "installed"
            /\ installedVersion(map) = marker

\* C16: remove(v) sets state(v) to Missing if and only if the deletion of
\* the archive or of the pre-extracted directory went through on some
\* attempt and v is not the installed version or the deletion of the
\* active-install directory went through on some attempt; otherwise the
\* store is unchanged and no event is emitted.
C16_RemoveSetsMissing ==
    [][\A v \in Versions :
          (rem[v].pc \in {"binary", "final"} /\ rem'[v].pc = "idle") =>
              IF /\ rem[v].zipGone \/ rem[v].pathGone
                 /\ rem[v].pc = "final" => rem[v].binaryGone
              THEN state(stateMap', v) = "missing"
              ELSE stateMap' = stateMap /\ emitted' = <<>>]_vars

\* C17: remove(v) never rejects: whichever deletions fail, the call resolves.
C17_RemoveResolves ==
    [][\A v \in Versions :
          (rem[v].pc # "idle" /\ rem'[v].pc = "idle") =>
              ret' = Ret("remove", v, "ok", FALSE, 1)]_vars

C17_Witness ==
    /\ ret = Ret("remove", ret.version, "ok", FALSE, 1)
    /\ ret.version \in zips
    /\ ret.version \in preDirs
    /\ state(stateMap, ret.version) # "missing"

\* C18: remove(v) of the Installed version whose deletions all succeed has
\* deleted the archive and the active-install directory, emits exactly the
\* event (v, Missing) and leaves state(v) = Missing and no installedVersion.
C18_RemoveInstalled ==
    [][\A v \in Versions :
          (/\ rem[v].pc = "final" /\ rem'[v].pc = "idle"
           /\ state(stateMap, v) = "installed"
           /\ rem[v].isZipDeleted /\ rem[v].isPathDeleted /\ rem[v].isBinaryDeleted)
          => /\ v \notin zips'
             /\ marker' = None
             /\ emitted' = <<[version |-> v, state |-> "missing"]>>
             /\ state(stateMap', v) = "missing"
             /\ installedVersion(stateMap') = None]_vars

\* C19: a step of remove(v) taken while state(v) = Missing emits no event
\* and leaves the state of v and of every other version as it was.
C19_RemoveMissing ==
    [][\A v \in Versions :
          (rem'[v] # rem[v] /\ state(stateMap, v) = "missing") =>
              /\ emitted' = <<>>
              /\ stateMap' = stateMap]_vars

C19_Witness ==
    /\ ret.op = "remove"
    /\ setLog = <<[version |-> ret.version, state |-> "missing"]>>
    /\ emitted = <<>>
    /\ state(stateMap, ret.version) = "missing"

\* the order in which install() moves through its positions
InstallOrder ==
    {<<"idle", "awaitDl">>, <<"idle", "dlReady">>, <<"awaitDl", "dlReady">>,
     <<"dlReady", "rm">>, <<"dlReady", "idle">>, <<"rm", "extract">>,
     <<"rm", "copied">>, <<"rm", "idle">>, <<"extract", "finish">>,
     <<"extract", "idle">>, <<"finish", "idle">>, <<"copied", "idle">>}

InstalledVersions(map) == {map[i].version : i \in Installed(map)}

\* C20: an install(w) moves through its positions in one order and emits
\* (w, Downloading) when it starts the fetch of a Missing w, (w, Downloaded)
\* when that download ends, (w, Installing) when it enters
\* installVersionImpl, nothing while the directory is cleared and filled,
\* and at its end, v being the Installed version, (v, Downloaded) and then
\* (w, Installed): v is demoted before w is promoted and w alone is Installed.
C20_InstallEvents ==
    [][\A w \in Versions :
          LET p == inst[w].pc
              q == inst'[w].pc
              v == inst[w].installedVersion
          IN  q # p =>
                /\ <<p, q>> \in InstallOrder
                /\ (/\ p = "idle" /\ q = "awaitDl"
                    /\ state(stateMap, w) = "missing"
                    /\ ~InFlight(downloading, w))
                   => emitted' = <<[version |-> w, state |-> "downloading"]>>
                /\ (p = "awaitDl" /\ inst'[w].ok /\ state(stateMap, w) = "downloading")
                   => emitted' = <<[version |-> w, state |-> "downloaded"]>>
                /\ (p = "dlReady" /\ q = "rm")
                   => emitted' = <<[version |-> w, state |-> "installing"]>>
                /\ (p \in {"rm", "extract"} /\ q # "idle") => emitted' = <<>>
                /\ (/\ p \in {"finish", "copied"}
                    /\ v \notin {None, w}
                    /\ InstalledVersions(stateMap) = {v}
                    /\ state(stateMap, w) = "installing")
                   => /\ emitted' = <<[version |-> v, state |-> "downloaded"],
                                      [version |-> w, state |-> "installed"]>>
                      /\ InstalledVersions(stateMap') = {w}]_vars

C20_Witness ==
    /\ ret.op = "install" /\ ret.outcome = "ok"
    /\ Len(emitted) = 2
    /\ emitted[1].version # ret.version /\ emitted[1].state = "downloaded"
    /\ emitted[2] = [version |-> ret.version, state |-> "installed"]
    /\ InstalledVersions(stateMap) = {ret.version}

\* C21: ensureDownloaded(v) called with no download of v in flight, v not
\* Missing and its archive present (as after a successful ensureDownloaded)
\* returns the archive path with alreadyExtracted = false at once, starts no
\* fetch, leaves the archive alone and emits no event.
C21_SecondDownload ==
    [][\A v \in Versions :
          (/\ EnsureDownloadedCall(v)
           /\ ~InFlight(downloading, v)
           /\ state(stateMap, v) # "missing"
           /\ v \in zips)
          => /\ ret' = Ret("ensureDownloaded", v, "ok", FALSE, 1)
             /\ fetches' = fetches
             /\ downloading' = downloading
             /\ zips' = zips
             /\ stateMap' = stateMap
             /\ emitted' = <<>>]_vars

C21_Witness ==
    /\ calls >= 2
    /\ ret = Ret("ensureDownloaded", ret.version, "ok", FALSE, 1)
    /\ state(stateMap, ret.version) = "downloaded"
    /\ ret.version \in zips
    /\ emitted = <<>>
    /\ setLog = <<>>

\* C22: when an ensureDownloaded(v) operation settles, with success or with
\* failure, v leaves the in-flight download map; an ensureDownloaded(v)
\* issued right after a failed one starts a new fetch.
C22_SettledLeavesMap ==
    [][\A v \in Versions :
          /\ (\/ ret'.op = "ensureDownloaded" /\ ret'.version = v
              \/ inst[v].pc = "awaitDl" /\ inst'[v].pc = "dlReady")
             => ~InFlight(downloading', v)
          /\ (/\ ret = Ret("ensureDownloaded", v, "error", FALSE, ret.n)
              /\ EnsureDownloadedCall(v))
             => /\ fetches'[v] = fetches[v] + 1
                /\ downloading'[v] = [pc |-> "fetch", ext |-> 1]
                /\ ret' = NoRet]_vars

C22_Witness ==
    /\ ret.op = "ensureDownloaded" /\ ret.outcome = "error"
    /\ ~InFlight(downloading, ret.version)
    /\ calls >= 2

\* C23: install(w) is rejected with 'Currently installing' only when an
\* install of w itself is in flight; an install of another version in flight
\* does not reject it.
C23_OtherVersionNotBusy ==
    [][\A w \in Versions :
          InstallCall(w) => (ret'.outcome = "busy" <=> w \in installing)]_vars

C23_Witness == installing = Versions

\* C24: an install(v) that rejects after its download or its extraction
\* failed has left the in-flight install set; an install(v) issued right
\* after it is not rejected as busy, and an install that resolves leaves v
\* Installed.
C24_RejectedLeavesSet ==
    [][\A v \in Versions :
          /\ (inst[v].pc # "idle" /\ inst'[v].pc = "idle") =>
                /\ v \notin installing'
                /\ ret'.outcome = "ok" => state(stateMap', v) = "installed"
          /\ (ret = Ret("install", v, "error", FALSE, 1) /\ InstallCall(v))
             => /\ ret'.outcome # "busy"
                /\ v \in installing' \/ ret'.outcome = "ok"]_vars

C24_Witness ==
    /\ ret = Ret("install", ret.version, "error", FALSE, 1)
    /\ ret.version \notin installing

\* C28: after install(w) fails while it clears or populates the
\* active-install directory, no version is Installed in the store unless the
\* directory still holds that version: installedVersion() is undefined once
\* the directory is empty or partial, also when a version v was Installed
\* before the call.
C28_FailedInstallClaimsNothing ==
    [][\A w \in Versions :
          (inst[w].pc \in {"rm", "extract"} /\ inst'[w].pc = "idle") =>
              \A u \in Versions :
                  state(stateMap', u) = "installed" => marker' = u]_vars

\* C29: when an install of w completes, w is the installed version and no
\* other version is Installed, also when the install of another version
\* overlapped it and completed before: the last install to complete wins and
\* the other version is Downloaded.
C29_LastInstallWins ==
    [][\A w \in Versions :
          (inst[w].pc \in {"copied", "finish"} /\ inst'[w].pc = "idle") =>
              /\ installedVersion(stateMap') = w
              /\ \A u \in Versions \ {w} :
                    state(stateMap', u) # "installed"]_vars

\* C30: ensureDownloaded(v) with state(v) = Downloaded, no download of v in
\* flight and neither the archive nor a pre-extracted directory on disk emits
\* (v, Downloading) and starts a fetch; when the fetched archive is in place
\* it emits (v, Downloaded) and returns the archive path with
\* alreadyExtracted = false.
C30_StaleDownloadedRefetches ==
    [][\A v \in Versions :
          /\ (/\ EnsureDownloadedCall(v)
              /\ ~InFlight(downloading, v)
              /\ state(stateMap, v) = "downloaded"
              /\ v \notin zips /\ v \notin preDirs)
             => /\ emitted' = <<[version |-> v, state |-> "downloading"]>>
                /\ fetches'[v] = fetches[v] + 1
                /\ downloading'[v] = [pc |-> "fetch", ext |-> 1]
          /\ (/\ downloading[v].pc = "moved" /\ downloading'[v].pc = "none"
              /\ state(stateMap, v) = "downloading")
             => /\ emitted' = <<[version |-> v, state |-> "downloaded"]>>
                /\ downloading[v].ext > 0 =>
                      ret' = Ret("ensureDownloaded", v, "ok", FALSE,
                                 downloading[v].ext)]_vars

\* the call has just acted on a version recorded before the Installed one,
\* which has no file on disk and was never fetched before
C30_Witness ==
    \E v \in Versions :
        /\ Len(stateMap) = 2
        /\ stateMap[1] = [version |-> v, state |-> "downloading"]
        /\ stateMap[2].state = "installed"
        /\ marker = stateMap[2].version
        /\ v \notin zips /\ v \notin preDirs
        /\ fetches[v] = 1
        /\ emitted = <<[version |-> v, state |-> "downloading"]>>

\* the events of `events` that are about version v
EventsOf(events, v) == SelectSeq(events, LAMBDA e : e.version = v)

\* state(v) = Downloaded, the pre-extracted directory present, the archive
\* absent and no download of v in flight
PreExtractedOnly(v) ==
    /\ state(stateMap, v) = "downloaded"
    /\ v \in preDirs /\ v \notin zips
    /\ ~InFlight(downloading, v)

DownloadOrRemoveStep(v) ==
    \/ EnsureDownloadedCall(v) \/ DownloadFetched(v) \/ DownloadMoved(v)
    \/ DownloadFinish(v)
    \/ RemoveCall(v) \/ RemovePath(v) \/ RemoveBinary(v) \/ RemoveFinal(v)

\* the step is a step of install(v) outside its download
InstallStep(v) ==
    \/ InstallCall(v) \/ InstallResume(v) \/ InstallCleared(v)
    \/ InstallExtracted(v) \/ InstallFinish(v)

\* the step leaves version u alone
Untouched(u) ==
    /\ state(stateMap', u) = state(stateMap, u)
    /\ EventsOf(emitted', u) = <<>>

\* C38: a step of ensureDownloaded(v) or of remove(v) changes the state of
\* no other version and emits no event for one; a step of install(v) does so
\* only when the install succeeds, and then only by taking the version that
\* is Installed to Downloaded.
C38_FrameOfOperations ==
    [][\A v \in Versions : \A u \in Versions \ {v} :
          /\ DownloadOrRemoveStep(v) => Untouched(u)
          /\ InstallStep(v) =>
                \/ Untouched(u)
                \/ /\ ret' = Ret("install", v, "ok", FALSE, 1)
                   /\ state(stateMap, u) = "installed"
                   /\ state(stateMap', u) = "downloaded"
                   /\ EventsOf(emitted', u) =
                         <<[version |-> u, state |-> "downloaded"]>>]_vars

\* no call of the Installer is in flight
Quiescent ==
    \A v \in Versions :
        /\ ~InFlight(downloading, v)
        /\ inst[v].pc = "idle"
        /\ rem[v].pc = "idle"

\* C39: whenever no operation is in flight, every version with state
\* Downloaded has its archive or a pre-extracted directory in the download
\* cache.
C39_DownloadedHasFiles ==
    Quiescent =>
        \A v \in Versions :
            state(stateMap, v) = "downloaded" => v \in zips \cup preDirs

\* C40: a step of a download of v made while state(v) = Installed leaves
\* state(v) = Installed and installedVersion() = v, whether or not the
\* archive is present and whether the download succeeds or fails.
C40_InstalledStaysInstalled ==
    [][\A v \in Versions :
          (/\ state(stateMap, v) = "installed"
           /\ installedVersion(stateMap) = v
           /\ \/ EnsureDownloadedCall(v) \/ DownloadFetched(v)
              \/ DownloadMoved(v) \/ DownloadFinish(v))
          => /\ state(stateMap', v) = "installed"
             /\ installedVersion(stateMap') = v]_vars

----------------------------------------------------------------------------
(* Properties of Runner.bisect                                             *)

\* positions below k pass, positions from k on fail
Monotonic(k) ==
    \A i \in Positions(versionCount) :
        oracle[i] = IF i < k THEN "test_passed" ELSE "test_failed"

\* C9: for a range of N >= 2 versions whose verdicts are Passed below some
\* k in 1..N-1 and Failed from k on, bisect returns Succeeded with the
\* range [version[k-1], version[k]].
C9_MonotonicBisect ==
    bpc = "done" =>
        \A k \in 1 .. (versionCount - 1) :
            Monotonic(k) =>
                bisectResult = [status |-> "bisect_succeeded", range |-> <<k - 1, k>>]

C9_Witness ==
    /\ bpc = "done"
    /\ versionCount >= 4
    /\ Monotonic(2)
    /\ Len(testOrder) >= 2
    /\ bisectResult = [status |-> "bisect_succeeded", range |-> <<1, 2>>]

\* C10: whenever bisect returns Succeeded, the range is a pair of adjacent
\* positions, the first run and Passed, the second run and Failed.
C10_SucceededAdjacent ==
    (bpc = "done" /\ bisectResult.status = "bisect_succeeded") =>
        LET l == bisectResult.range[1]
            r == bisectResult.range[2]
        IN  /\ r = l + 1
            /\ runs[l] >= 1 /\ oracle[l] = "test_passed"
            /\ runs[r] >= 1 /\ oracle[r] = "test_failed"

ErrorVerdict == {"test_error", "system_error"}

\* the positions bisect has run so far
Ran == {i \in Positions(versionCount) : runs[i] >= 1}

\* C11: a midpoint run that returns TestError or SystemError is the last
\* midpoint tested, and bisect then returns exactly that status, no range.
C11_AbortStatus ==
    \A i \in DOMAIN testOrder :
        oracle[testOrder[i]] \in ErrorVerdict =>
            /\ i = Len(testOrder)
            /\ bpc = "done" =>
                  bisectResult = [status |-> oracle[testOrder[i]], range |-> <<>>]

\* C12: when every run bisect performed returned SystemError, bisect returns
\* status SystemError with no range.
C12_AllSystemError ==
    (bpc = "done" /\ \A i \in Ran : oracle[i] = "system_error") =>
        bisectResult = [status |-> "system_error", range |-> <<>>]

C14_TrivialRange ==
    versionCount <= 1 =>
        /\ testOrder = <<>>
        /\ bpc # "threw"
        /\ bpc = "done" =>
              /\ bisectResult.status \in ErrorVerdict
              /\ bisectResult.range = <<>>

\* C25: when the install of a candidate version fails during a bisect run,
\* bisect rejects: the step records no verdict for the version (no
\* SystemError either), no BisectResult is returned, and nothing follows.
C25_InstallFailureRejects ==
    [][/\ bpc # "rejected"
       /\ bpc' = "rejected" => /\ results' = results
                               /\ result' = result
                               /\ runs' = runs
                               /\ bisectResult' = NoResult]_vars

C25_Witness ==
    /\ bpc = "rejected"
    /\ testOrder # <<>>
    /\ results[testOrder[Len(testOrder)]] = Undefined
    /\ bisectResult = NoResult

\* bisect has run its boundaries and is about to classify, or has classified
AtClassification == (bpc = "confirm" /\ boundaries = <<>>) \/ bpc = "done"

\* C32: for a range of size >= 2, when bisect reaches its classification,
\* after convergence or after an abort, results[left] and results[right]
\* are recorded verdicts; position 0 has been run exactly when left is
\* still 0, and position N-1 exactly when right is still N-1.
C32_BoundariesHaveVerdicts ==
    (versionCount >= 2 /\ AtClassification) =>
        /\ left \in Positions(versionCount) /\ right \in Positions(versionCount)
        /\ results[left] = oracle[left] /\ results[right] = oracle[right]
        /\ runs[0] >= 1 <=> left = 0
        /\ runs[versionCount - 1] >= 1 <=> right = versionCount - 1

C32_Witness ==
    /\ bpc = "done"
    /\ versionCount >= 3
    /\ result \in ErrorVerdict
    /\ left = 0 /\ right = versionCount - 1
    /\ runs[0] = 1 /\ runs[versionCount - 1] = 1

\* the verdict of the last midpoint run, Undefined when no midpoint was run
LastMidpointVerdict ==
    IF testOrder = <<>> THEN Undefined ELSE results[testOrder[Len(testOrder)]]

\* C33: the status bisect returns follows this precedence: Succeeded, with
\* the range [left, right], when results[left] is Passed and results[right]
\* is Failed; else the verdict the midpoint loop stopped on when that is
\* TestError or SystemError; else TestError when results[left] and
\* results[right] are the same verdict; else SystemError. Only Succeeded
\* carries a range.
C33_ClassificationPrecedence ==
    bpc = "done" =>
        /\ bisectResult.status =
              IF results[left] = "test_passed" /\ results[right] = "test_failed"
              THEN "bisect_succeeded"
              ELSE IF LastMidpointVerdict \in ErrorVerdict
              THEN LastMidpointVerdict
              ELSE IF results[left] = results[right]
              THEN "test_error"
              ELSE "system_error"
        /\ bisectResult.range =
              IF bisectResult.status = "bisect_succeeded"
              THEN <<left, right>> ELSE <<>>

C33_Witness ==
    /\ bpc = "done"
    /\ bisectResult.status = "bisect_succeeded"
    /\ LastMidpointVerdict \in ErrorVerdict

\* C34: within one bisect call every position of the range is run at most
\* once, for every range size: no position is run both as a midpoint and as
\* a boundary, and no boundary is run twice.
C34_RunAtMostOnce == \A i \in Positions(versionCount) : runs[i] <= 1

\* the least k with 2^k >= n
RECURSIVE CeilLog2From(_, _, _)
CeilLog2From(n, k, p) == IF p >= n THEN k ELSE CeilLog2From(n, k + 1, 2 * p)

CeilLog2(n) == CeilLog2From(n, 0, 1)

RECURSIVE SumRuns(_)
SumRuns(n) == IF n = 0 THEN 0 ELSE runs[n - 1] + SumRuns(n - 1)

\* bisect has returned or rejected
Terminated == bpc \in {"done", "threw", "rejected"}

\* C35: when every run comes to its end bisect terminates, for every range
\* and verdict assignment: every midpoint lies strictly between left and
\* right, every iteration makes right - left smaller, at most
\* ceil(log2(N-1)) midpoints are run, and at most 2 boundary runs follow.
C35_BisectTerminates ==
    /\ [][/\ Len(testOrder') > Len(testOrder) =>
               LET mid == testOrder'[Len(testOrder')]
               IN  left < mid /\ mid < right
          /\ <<left', right'>> # <<left, right>> =>
               /\ left <= left' /\ right' <= right
               /\ right' - left' < right - left]_vars
    /\ [](/\ Len(testOrder) <= IF versionCount >= 2
                               THEN CeilLog2(versionCount - 1) ELSE 0
          /\ SumRuns(versionCount) - Len(testOrder) <= 2)
    /\ <>Terminated

C35_Witness ==
    /\ bpc = "done"
    /\ versionCount >= 4
    /\ Len(testOrder) = CeilLog2(versionCount - 1)
    /\ SumRuns(versionCount) = Len(testOrder) + 1

\* C37: in every state of a bisect over a range of N >= 2 versions, from
\* the first iteration of the midpoint loop on, 0 <= left < right <= N-1,
\* results[left] is Passed unless left is the lower bound 0, and
\* results[right] is Failed unless right is the upper bound N-1.
C37_LoopInvariant ==
    (versionCount >= 2 /\ bpc # "idle") =>
        /\ 0 <= left /\ left < right /\ right <= versionCount - 1
        /\ left # 0 => results[left] = "test_passed"
        /\ right # versionCount - 1 => results[right] = "test_failed"

C37_Witness ==
    /\ bpc = "loop"
    /\ left # 0 /\ right # versionCount - 1
    /\ Len(testOrder) = 2

----------------------------------------------------------------------------
(* Properties of versions.ts                                                *)

\* the main version of a is lower than that of b
MainLess(a, b) ==
    \/ a.major < b.major
    \/ a.major = b.major /\ a.minor < b.minor
    \/ a.major = b.major /\ a.minor = b.minor /\ a.patch < b.patch

SameMain(a, b) == ~MainLess(a, b) /\ ~MainLess(b, a)

IsPrerelease(a) == a.prerelease # <<>>
IsNightly(a) == IsPrerelease(a) /\ a.prerelease[1].tag = "nightly"

\* a sorts before b by the rule: main version, then nightly, then the other
\* prerelease tags, then the stable release
RuleBefore(a, b) ==
    \/ MainLess(a, b)
    \/ /\ SameMain(a, b)
       /\ \/ IsNightly(a) /\ IsPrerelease(b) /\ ~IsNightly(b)
          \/ IsPrerelease(a) /\ ~IsPrerelease(b)

Known(a) == \E i \in DOMAIN versionMap : versionMap[i] = a

\* C26: for known versions a and b, inRange(a, b) and inRange(b, a) are the
\* same array: the known versions from the lower to the higher endpoint,
\* both included, in ascending order; bisect, which reads its endpoints only
\* through inRange, therefore runs the same tests for both orders.
C26_InRangeSymmetric ==
    (vpc = "ranged" /\ Known(endA) /\ Known(endB)) =>
        /\ rangeAB = rangeBA
        /\ {rangeAB[i] : i \in DOMAIN rangeAB}
             = {s \in val : /\ compareVersions(s, endA) >= 0 \/ compareVersions(s, endB) >= 0
                            /\ compareVersions(s, endA) <= 0 \/ compareVersions(s, endB) <= 0}
        /\ \A i, j \in DOMAIN rangeAB :
              i < j => compareVersions(rangeAB[i], rangeAB[j]) < 0

C26_Witness ==
    /\ vpc = "ranged" /\ Known(endA) /\ Known(endB)
    /\ compareVersions(endB, endA) < 0
    /\ Len(rangeAB) = 3
    /\ rangeAB[1] = endB /\ rangeAB[3] = endA

\* C27: compareVersions orders two versions by their main version; for equal
\* main versions a nightly prerelease sorts before every other prerelease
\* tag, and every prerelease before the stable release.
C27_NightlyFirst ==
    vpc = "compared" =>
        /\ RuleBefore(semA, semB) => cmp = -1
        /\ RuleBefore(semB, semA) => cmp = 1

C27_Witness ==
    /\ vpc = "compared"
    /\ SameMain(semA, semB)
    /\ IsNightly(semA) /\ IsPrerelease(semB) /\ ~IsNightly(semB)
    /\ cmp = -1

----------------------------------------------------------------------------
(* Properties of the deletions of remove()                                  *)

\* C36: remove(v) calls the deletion of each of its paths at most 4 times,
\* and makes no attempt on a path after one that succeeded: the attempts are
\* the failing ones, up to 4, and the first that succeeds, if any.
C36_BoundedAttempts ==
    \A i \in DOMAIN RemovePaths :
        LET p == RemovePaths[i]
        IN  i < rmpc =>
              /\ rmAttempts[p] <= 4
              /\ rmAttempts[p] =
                    IF p = "electronInstall" /\ ~rmInstalled THEN 0
                    ELSE IF rmFail[p] < 4 THEN rmFail[p] + 1 ELSE 4
              /\ (rmAttempts[p] >= 1 /\ rmExists[p]) => rmFail[p] >= 4

C36_Witness ==
    /\ rmpc = Len(RemovePaths) + 1
    /\ rmAttempts["zip"] = 4 /\ rmExists["zip"]
    /\ rmAttempts["preInstalled"] = 3 /\ ~rmExists["preInstalled"]
    /\ rmAttempts["electronInstall"] = 1 /\ rmResult["electronInstall"]

====
